---- MODULE Spec2Model ----
(***************************************************************************)
(* neon-chronos: the pose history kept by App (src/unnamed/part_001) and   *)
(* the trail renderer of Visualizer (src/unnamed/part_000).                *)
(*                                                                         *)
(* JavaScript runs every callback to completion on one thread, so each     *)
(* handler (effect, effect cleanup, pose-result callback, animation frame) *)
(* is one action.                                                          *)
(*                                                                         *)
(* Time.  Date.now() is the variable now, in milliseconds.  The delay of   *)
(* layer i is (i / (TRAIL_COUNT - 1)) * MAX_DELAY_MS, which is not a whole *)
(* number of milliseconds, so every quantity the render tick compares      *)
(* (target timestamp, differences, the 1000 ms limit) is kept multiplied   *)
(* by TimeScale = TRAIL_COUNT - 1; with that factor they are all integers. *)
(*                                                                         *)
(* Coordinates.  Landmark coordinates and buffer floats are kept in        *)
(* hundredths (x = 37 stands for 0.37); Float32 rounding is not modelled.  *)
(***************************************************************************)
EXTENDS Integers, Sequences, FiniteSets

\* ---------------------------------------------------------------- bounds
\* History capacity: the callback's literal 200, scaled down.
MaxHistory == 2
\* Number of detection results with landmarks delivered in one run.
MaxAppends == 3
\* Number of animation-frame requests made in one run.
MaxFrames == 2
\* The clock advances in steps of TimeStep ms up to MaxNow ms.
TimeStep == 500
MaxNow == 1000
\* The renderer on its own (SpecRender): histories of up to RenderLen frames
\* with timestamps up to RenderSpan ms, the clock up to RenderMaxNow ms,
\* RenderFrames animation-frame requests.
RenderLen == 3
RenderSpan == 1000
RenderMaxNow == 3500
RenderFrames == 3

\* ------------------------------------------------------ program constants
TRAIL_COUNT == 15
MAX_DELAY_MS == 2500
StaleMs == 1000

POSE_CONNECTIONS ==
  << <<11, 12>>, <<11, 13>>, <<13, 15>>, <<12, 14>>, <<14, 16>>,
     <<11, 23>>, <<12, 24>>, <<23, 24>>,
     <<23, 25>>, <<25, 27>>, <<24, 26>>, <<26, 28>>,
     <<27, 29>>, <<29, 31>>, <<27, 31>>,
     <<28, 30>>, <<30, 32>>, <<28, 32>>,
     <<15, 17>>, <<17, 19>>, <<19, 21>>, <<15, 21>>,
     <<16, 18>>, <<18, 20>>, <<20, 22>>, <<16, 22>>,
     <<9, 10>> >>

FACE_CONNECTIONS ==
  << <<0, 1>>, <<1, 2>>, <<2, 3>>, <<3, 7>>,
     <<0, 4>>, <<4, 5>>, <<5, 6>>, <<6, 8>> >>

ALL_CONNECTIONS == POSE_CONNECTIONS \o FACE_CONNECTIONS

Layers == 0 .. (TRAIL_COUNT - 1)
Connections == 1 .. Len(ALL_CONNECTIONS)
\* positions = new Float32Array(ALL_CONNECTIONS.length * 2 * 3)
BufferLen == Len(ALL_CONNECTIONS) * 2 * 3
TimeScale == TRAIL_COUNT - 1

\* A landmark array has an entry for every index the topology uses (0 .. 32).
NumLandmarks ==
  1 + (CHOOSE m \in 0 .. 64 :
         /\ \E c \in Connections : m \in {ALL_CONNECTIONS[c][1], ALL_CONNECTIONS[c][2]}
         /\ \A c \in Connections :
              ALL_CONNECTIONS[c][1] <= m /\ ALL_CONNECTIONS[c][2] <= m)

Abs(x) == IF x < 0 THEN -x ELSE x
Min(a, b) == IF a < b THEN a ELSE b

\* ------------------------------------------------------------ input data
\* A detection result carries either no landmark set (NoLandmarks) or a
\* landmark array; a frame stores the reference to that array.  Two arrays
\* stand for the detector's output: pose 1 has all 33 landmarks, pose 2 is a
\* partial detection.
NoLandmarks == 0
Poses == 1 .. 2

\* Landmark indices a pose's array has no entry for.
MissingLandmarks(p) == IF p = 1 THEN {} ELSE {13}

HasLandmark(p, k) ==
  k >= 0 /\ k < NumLandmarks /\ k \notin MissingLandmarks(p)

\* Landmark k of pose p: x, y, z in hundredths, different for every (p, k).
Landmark(p, k) == [x |-> 3 * k + p, y |-> 100 - 3 * k - p, z |-> 10 * p - k]

\* ------------------------------------------------------- temporal sampler
\* TargetDelay counting the layers from the other end: layer 0 gets the
\* largest delay.
TargetDelay_Reversed(i) == (TRAIL_COUNT - 1 - i) * MAX_DELAY_MS

\* TargetDelay dividing by TRAIL_COUNT: (i / TRAIL_COUNT) * MAX_DELAY_MS, times
\* TimeScale and rounded down; the last layer's delay stays below MAX_DELAY_MS.
TargetDelay_PerLayerCount(i) == (i * MAX_DELAY_MS * TimeScale) \div TRAIL_COUNT

\* const targetDelay = (i / (TRAIL_COUNT - 1)) * MAX_DELAY_MS, times TimeScale.
TargetDelay(i) == i * MAX_DELAY_MS

\* const targetTimestamp = now - targetDelay, times TimeScale.
TargetTimestamp(t, i) == t * TimeScale - TargetDelay(i)

\* Math.abs(history[f].timestamp - targetTimestamp), times TimeScale.
Diff(history, f, target) == Abs(history[f].timestamp * TimeScale - target)

\* ScanFrom with the comparison diff <= minDiff: a later frame at the same
\* distance replaces the earlier one.
RECURSIVE ScanFrom_TieLast(_, _, _, _, _)
ScanFrom_TieLast(history, target, f, best, minDiff) ==
  IF f > Len(history) THEN [best |-> best, minDiff |-> minDiff]
  ELSE LET diff == Diff(history, f, target) IN
       IF diff <= minDiff THEN ScanFrom_TieLast(history, target, f + 1, f, diff)
       ELSE [best |-> best, minDiff |-> minDiff]

\* The for loop of the tick from index f on (1-based here), with the best
\* index and difference found so far.
RECURSIVE ScanFrom(_, _, _, _, _)
ScanFrom(history, target, f, best, minDiff) ==
  IF f > Len(history) THEN [best |-> best, minDiff |-> minDiff]
  ELSE LET diff == Diff(history, f, target) IN
       IF diff < minDiff THEN ScanFrom(history, target, f + 1, f, diff)
       ELSE IF diff > minDiff THEN [best |-> best, minDiff |-> minDiff]
       ELSE ScanFrom(history, target, f + 1, best, minDiff)

\* bestFrame = history[0], minDiff = |history[0].timestamp - target|, then the
\* loop: the index of bestFrame and minDiff.  history is not empty.
FindNearest(history, target) ==
  ScanFrom(history, target, 2, 1, Diff(history, 1, target))

\* An array entry that is undefined instead of a frame.  App only ever pushes
\* frame objects; a host that renders Visualizer with such an array makes
\* history[f].timestamp throw a TypeError.
Hole == [hole |-> TRUE]
IsFrame(e) == "timestamp" \in DOMAIN e

\* Whether the for loop from index f on reads an undefined entry: it does
\* unless it breaks or ends before.
RECURSIVE ScanThrows(_, _, _, _)
ScanThrows(history, target, f, minDiff) ==
  IF f > Len(history) THEN FALSE
  ELSE IF ~IsFrame(history[f]) THEN TRUE
  ELSE LET diff == Diff(history, f, target) IN
       IF diff < minDiff THEN ScanThrows(history, target, f + 1, diff)
       ELSE IF diff > minDiff THEN FALSE
       ELSE ScanThrows(history, target, f + 1, minDiff)

\* Whether the forEach body of layer i throws at time t: in history[0].timestamp
\* or in the loop.  Nothing else in the body can throw.
LayerThrows(history, t, i) ==
  \/ ~IsFrame(history[1])
  \/ ScanThrows(history, TargetTimestamp(t, i), 2,
                Diff(history, 1, TargetTimestamp(t, i)))

\* The first layer whose body throws, TRAIL_COUNT when none does.
FirstThrow(history, t) ==
  IF \E i \in Layers : LayerThrows(history, t, i)
    THEN CHOOSE i \in Layers :
           /\ LayerThrows(history, t, i)
           /\ \A j \in 0 .. (i - 1) : ~LayerThrows(history, t, j)
    ELSE TRAIL_COUNT

\* ------------------------------------------------------- segment writing
\* The three floats written for one landmark (hundredths).
Transform(lm) == << (100 - lm.x - 50) * 15, (50 - lm.y) * 15, (0 - lm.z) * 10 >>

\* SegmentFloats testing only the start landmark: a connection whose end
\* landmark is missing still writes its start point.
SegmentFloats_StartOnly(p, c) ==
  LET a == ALL_CONNECTIONS[c][1]
      b == ALL_CONNECTIONS[c][2]
  IN  IF HasLandmark(p, a)
        THEN IF HasLandmark(p, b)
               THEN Transform(Landmark(p, a)) \o Transform(Landmark(p, b))
               ELSE Transform(Landmark(p, a))
        ELSE << >>

\* The floats one connection writes from pIdx on: nothing when an endpoint is
\* missing.
SegmentFloats(p, c) ==
  LET a == ALL_CONNECTIONS[c][1]
      b == ALL_CONNECTIONS[c][2]
  IN  IF HasLandmark(p, a) /\ HasLandmark(p, b)
        THEN Transform(Landmark(p, a)) \o Transform(Landmark(p, b))
        ELSE << >>

\* for (const [a, b] of ALL_CONNECTIONS) from connection c on.  Every write is
\* positions[pIdx++] = v, so the floats written so far (st.out) are the buffer's
\* entries 0 .. pIdx-1 and pIdx = Len(st.out); st.log records, per connection
\* already visited, the value of pIdx it started at and how many floats it wrote.
RECURSIVE WriteFrom(_, _, _)
WriteFrom(p, c, st) ==
  IF c > Len(ALL_CONNECTIONS) THEN st
  ELSE LET fl == SegmentFloats(p, c)
       IN  WriteFrom(p, c + 1,
                     [out |-> st.out \o fl,
                      log |-> Append(st.log, [at |-> Len(st.out), n |-> Len(fl)])])

\* The buffer after the floats out were written to its entries 0 .. Len(out)-1.
Overwrite(positions, out) ==
  [j \in 1 .. BufferLen |-> IF j <= Len(out) THEN out[j] ELSE positions[j]]

\* The loop run from pIdx = 0: what it writes depends on the landmark set
\* only, so it is tabulated per pose.
Written == [p \in Poses |-> WriteFrom(p, 1, [out |-> << >>, log |-> << >>])]

\* let pIdx = 0; the loop over ALL_CONNECTIONS: the buffer after it (entries
\* from pIdx on keep what they held) and the log of the writes.
WriteSegments(p, positions) ==
  [positions |-> Overwrite(positions, Written[p].out), log |-> Written[p].log]

\* ------------------------------------------------------------------ state
VARIABLES
  now,              \* Date.now(), ms
  PoseConstructor,  \* whether a Pose constructor is found (part_001:17)
  CameraConstructor,\* whether a Camera constructor is found (part_001:54)
  phase,            \* "created" (rendered, effects not run), "mounted", "unmounted"
  error,            \* App state error
  isLoaded,         \* App state isLoaded
  pose,             \* "none", "open", "closed"
  camera,           \* "none", "starting", "running", "denied", "stopped"
  sendInFlight,     \* a pose.send() of onFrame has not completed
  historyRef,       \* App: historyRef.current
  queuedHistory,    \* App: << value >> of a setPoseHistory not rendered yet
  poseHistory,      \* App state poseHistory = Visualizer prop
  effectDue,        \* the [poseHistory] effect of Visualizer is scheduled
  poseHistoryRef,   \* Visualizer: poseHistoryRef.current
  skeletonMeshes,   \* layer -> mesh: visible, positions (BufferLen floats),
                    \*   needsUpdate (position.needsUpdate has been set), and
                    \*   what the last animate() sampled for it
  geometryDisposed, \* layer -> number of geometry.dispose() calls
  materialDisposed, \* layer -> number of material.dispose() calls
  rafPending,       \* handles of the animation-frame requests not yet run
  rafLast,          \* last handle requestAnimationFrame returned
  animationId,      \* Visualizer: animationId (0: unassigned)
  appended,         \* history variable: every frame pushed, in arrival order
  ignored,          \* history variable: a result without landmarks has arrived
  tickLog           \* history variable: the inputs of the last animate() call

appVars == << PoseConstructor, CameraConstructor, error, isLoaded, pose, camera,
              sendInFlight >>
storeVars == << historyRef, queuedHistory, appended, ignored >>
propVars == << poseHistory, effectDue, poseHistoryRef >>
meshVars == << skeletonMeshes, tickLog >>
disposeVars == << geometryDisposed, materialDisposed >>
rafVars == << rafPending, rafLast, animationId >>
vars == << now, phase, appVars, storeVars, propVars, meshVars, disposeVars,
           rafVars >>

\* queuedHistory holds at most one value: a later setPoseHistory replaces it.
NoUpdate == << >>
\* No animate() call yet.
NoTick == [count |-> 0, sampled |-> FALSE, now |-> 0, history |-> << >>,
           store |-> << >>, failed |-> TRAIL_COUNT, composed |-> FALSE]

\* ------------------------------------------------------- history store
\* PushFrame evicting with pop() instead of shift(): the newest frame goes.
PushFrame_DropNewest(history, frame) ==
  LET pushed == Append(history, frame)
  IN  IF Len(pushed) > MaxHistory THEN SubSeq(pushed, 1, Len(pushed) - 1)
      ELSE pushed

\* PushFrame with unshift() and pop(): the new frame goes to the head.
PushFrame_AtHead(history, frame) ==
  LET pushed == << frame >> \o history
  IN  IF Len(pushed) > MaxHistory THEN SubSeq(pushed, 1, Len(pushed) - 1)
      ELSE pushed

\* historyRef.current.push(newFrame); if (length > 200) shift().
PushFrame(history, frame) ==
  LET pushed == Append(history, frame)
  IN  IF Len(pushed) > MaxHistory THEN Tail(pushed) ELSE pushed

\* ----------------------------------------------------------- render tick
\* Fresh without the test of minDiff.
Fresh_NeverStale(bestFrame, minDiff) ==
  bestFrame.landmarks # NoLandmarks

\* Fresh with minDiff <= 1000.
Fresh_Inclusive(bestFrame, minDiff) ==
  bestFrame.landmarks # NoLandmarks /\ minDiff <= StaleMs * TimeScale

\* if (bestFrame && bestFrame.landmarks && minDiff < 1000)
Fresh(bestFrame, minDiff) ==
  bestFrame.landmarks # NoLandmarks /\ minDiff < StaleMs * TimeScale

\* UpdateLayer with a hidden branch that also clears the buffer and requests
\* its upload.
UpdateLayer_ClearOnHide(history, t, i, mesh) ==
  LET target == TargetTimestamp(t, i)
      s == FindNearest(history, target)
      sampled == [target |-> target, best |-> s.best, minDiff |-> s.minDiff]
  IN  IF Fresh(history[s.best], s.minDiff)
        THEN [visible |-> TRUE,
              positions |-> WriteSegments(history[s.best].landmarks,
                                          mesh.positions).positions,
              needsUpdate |-> TRUE,
              sampled |-> sampled]
        ELSE [visible |-> FALSE, positions |-> [j \in 1 .. BufferLen |-> 0],
              needsUpdate |-> TRUE,
              sampled |-> sampled]

\* The body of skeletonMeshes.forEach for layer i: the mesh after it; target,
\* best and minDiff record what was sampled.
UpdateLayer(history, t, i, mesh) ==
  LET target == TargetTimestamp(t, i)
      s == FindNearest(history, target)
      sampled == [target |-> target, best |-> s.best, minDiff |-> s.minDiff]
  IN  IF Fresh(history[s.best], s.minDiff)
        THEN [visible |-> TRUE,
              positions |-> WriteSegments(history[s.best].landmarks,
                                          mesh.positions).positions,
              needsUpdate |-> TRUE,
              sampled |-> sampled]
        ELSE [visible |-> FALSE, positions |-> mesh.positions,
              needsUpdate |-> mesh.needsUpdate,
              sampled |-> sampled]

\* new THREE.LineSegments(geometry, material): a new object is visible, a new
\* Float32Array is all zero.
NewMesh ==
  [visible |-> TRUE, positions |-> [j \in 1 .. BufferLen |-> 0],
   needsUpdate |-> FALSE, sampled |-> [target |-> 0, best |-> 0, minDiff |-> 0]]

\* Animate with an else branch that hides every mesh when the history is empty.
Animate_HideOnEmpty(history, t, meshes) ==
  IF Len(history) > 0
    THEN [i \in Layers |-> UpdateLayer(history, t, i, meshes[i])]
    ELSE [i \in Layers |-> [meshes[i] EXCEPT !.visible = FALSE]]

\* animate() after its requestAnimationFrame: reads poseHistoryRef.current
\* (history) and Date.now() (t), and updates every mesh when the history is
\* not empty.  There is no try/catch in animate(): an exception thrown in the
\* body of layer k leaves forEach and animate(), so the layers from k on are
\* not touched.
Animate(history, t, meshes) ==
  IF Len(history) > 0
    THEN CHOOSE m \in {[i \in Layers |->
                          IF i < k THEN UpdateLayer(history, t, i, meshes[i])
                          ELSE meshes[i]] : k \in {FirstThrow(history, t)}} : TRUE
    ELSE meshes

\* The layer whose body threw in an animate() call, TRAIL_COUNT when the call
\* returned normally.
Failed(history, t) ==
  IF Len(history) > 0 THEN FirstThrow(history, t) ELSE TRAIL_COUNT

\* The record of an animate() call: what it read, the history store then, the
\* layer that threw, and whether the call reached composer.render().
Tick(history, t) ==
  [count |-> tickLog.count + 1, sampled |-> Len(history) > 0, now |-> t,
   history |-> history, store |-> historyRef,
   failed |-> Failed(history, t),
   composed |-> Failed(history, t) = TRAIL_COUNT]

\* RequestFrame not keeping the handle: requestAnimationFrame(animate) without
\* the assignment to animationId.
RequestFrame_HandleDropped(pending) ==
  /\ rafLast' = rafLast + 1
  /\ animationId' = animationId
  /\ rafPending' = pending \cup {rafLast + 1}

\* animationId = requestAnimationFrame(animate)
RequestFrame(pending) ==
  /\ rafLast' = rafLast + 1
  /\ animationId' = rafLast + 1
  /\ rafPending' = pending \cup {rafLast + 1}

\* What App's render shows in its status corner (part_001:89-105).
StatusShown ==
  (IF ~isLoaded /\ error = "null" THEN {"Detecting Form..."} ELSE {})
    \cup (IF error # "null" THEN {error} ELSE {})
    \cup (IF isLoaded THEN {"Mode: Kinetic Line", "Trail: 3.0s Delay"} ELSE {})

\* ------------------------------------------------------------------ Init
\* App and Visualizer have rendered once; no effect has run yet.
Init ==
  /\ now = 0
  /\ PoseConstructor \in BOOLEAN
  /\ CameraConstructor \in BOOLEAN
  /\ phase = "created"
  /\ error = "null"
  /\ isLoaded = FALSE
  /\ pose = "none"
  /\ camera = "none"
  /\ sendInFlight = FALSE
  /\ historyRef = << >>
  /\ queuedHistory = NoUpdate
  /\ poseHistory = << >>
  /\ effectDue = FALSE
  /\ poseHistoryRef = << >>
  /\ skeletonMeshes = << >>
  /\ geometryDisposed = << >>
  /\ materialDisposed = << >>
  /\ rafPending = {}
  /\ rafLast = 0
  /\ animationId = 0
  /\ appended = << >>
  /\ ignored = FALSE
  /\ tickLog = NoTick

\* --------------------------------------------------------------- actions
\* Visualizer's effects (part_000:37-39 and 41-154), in source order: the
\* reference is set, the 15 meshes are created and animate() is called once.
VisualizerEffects ==
  /\ poseHistoryRef' = poseHistory
  /\ geometryDisposed' = [i \in Layers |-> 0]
  /\ materialDisposed' = [i \in Layers |-> 0]
  /\ RequestFrame(rafPending)
  /\ skeletonMeshes' = Animate(poseHistory, now, [i \in Layers |-> NewMesh])
  /\ tickLog' = Tick(poseHistory, now)

\* AppEffect without the return after setError: the pose source and the camera
\* are set up although no Pose constructor was found.
AppEffect_NoEarlyReturn ==
  /\ error' = IF ~PoseConstructor THEN "Failed to initialize Pose detection."
              ELSE error
  /\ pose' = "open"
  /\ camera' = IF CameraConstructor THEN "starting" ELSE "none"

\* App's effect (part_001:15-65).
AppEffect ==
  IF ~PoseConstructor
    THEN /\ error' = "Failed to initialize Pose detection."
         /\ UNCHANGED << pose, camera >>
    ELSE /\ pose' = "open"
         /\ camera' = IF CameraConstructor THEN "starting" ELSE "none"
         /\ UNCHANGED error

\* First commit: the child's effects run, then the parent's.
Mount ==
  /\ phase = "created"
  /\ phase' = "mounted"
  /\ VisualizerEffects
  /\ AppEffect
  /\ UNCHANGED << now, PoseConstructor, CameraConstructor, isLoaded,
                  sendInFlight, storeVars, poseHistory, effectDue >>

\* Time passes (followed while the components are mounted, up to limit).
Elapse(limit) ==
  /\ phase = "mounted"
  /\ now + TimeStep <= limit
  /\ now' = now + TimeStep
  /\ UNCHANGED << phase, appVars, storeVars, propVars, meshVars, disposeVars,
                  rafVars >>

\* camera.start() resolves: .then(() => setIsLoaded(true)).
CameraStarted ==
  /\ camera = "starting"
  /\ camera' = "running"
  /\ isLoaded' = TRUE
  /\ UNCHANGED << now, phase, PoseConstructor, CameraConstructor, error, pose,
                  sendInFlight, storeVars, propVars, meshVars, disposeVars,
                  rafVars >>

\* camera.start() rejects: .catch(() => setError("Camera access denied.")).
CameraDenied ==
  /\ camera = "starting"
  /\ camera' = "denied"
  /\ error' = "Camera access denied."
  /\ UNCHANGED << now, phase, PoseConstructor, CameraConstructor, isLoaded,
                  pose, sendInFlight, storeVars, propVars, meshVars,
                  disposeVars, rafVars >>

\* onFrame: if (videoRef.current) await pose.send(...).  The camera does not
\* call onFrame again before the previous call has settled.
OnFrame ==
  /\ camera = "running"
  /\ phase = "mounted"
  /\ ~sendInFlight
  /\ sendInFlight' = TRUE
  /\ UNCHANGED << now, phase, PoseConstructor, CameraConstructor, error,
                  isLoaded, pose, camera, storeVars, propVars, meshVars,
                  disposeVars, rafVars >>

\* OnResults calling setPoseHistory before the eviction: the published copy
\* is taken between push() and shift().
OnResults_PublishBeforeShift(lm) ==
  IF lm # NoLandmarks
    THEN LET newFrame == [timestamp |-> now, landmarks |-> lm]
         IN  /\ historyRef' = PushFrame(historyRef, newFrame)
             /\ appended' = Append(appended, newFrame)
             /\ ignored' = ignored
             /\ queuedHistory' = IF phase = "mounted"
                                   THEN << Append(historyRef, newFrame) >>
                                   ELSE queuedHistory
             /\ UNCHANGED propVars
    ELSE /\ ignored' = TRUE
         /\ UNCHANGED << historyRef, queuedHistory, appended, propVars >>

\* OnResults calling setPoseHistory(historyRef.current): the array handed to
\* React is the store itself, so every holder of a published history sees the
\* later push() and shift().  (A published history is never empty.)
OnResults_PublishStore(lm) ==
  IF lm # NoLandmarks
    THEN LET newFrame == [timestamp |-> now, landmarks |-> lm]
         IN  /\ historyRef' = PushFrame(historyRef, newFrame)
             /\ appended' = Append(appended, newFrame)
             /\ ignored' = ignored
             /\ queuedHistory' = IF phase = "mounted" THEN << historyRef' >>
                                 ELSE queuedHistory
             /\ poseHistory' = IF Len(poseHistory) > 0 THEN historyRef'
                               ELSE poseHistory
             /\ poseHistoryRef' = IF Len(poseHistoryRef) > 0 THEN historyRef'
                                  ELSE poseHistoryRef
             /\ UNCHANGED effectDue
    ELSE /\ ignored' = TRUE
         /\ UNCHANGED << historyRef, queuedHistory, appended, propVars >>

\* OnResults without the test of results.poseLandmarks: every result is stored.
OnResults_NoLandmarkCheck(lm) ==
  LET newFrame == [timestamp |-> now, landmarks |-> lm]
  IN  /\ historyRef' = PushFrame(historyRef, newFrame)
      /\ appended' = Append(appended, newFrame)
      /\ ignored' = (ignored \/ lm = NoLandmarks)
      /\ queuedHistory' = IF phase = "mounted" THEN << historyRef' >>
                          ELSE queuedHistory
      /\ UNCHANGED propVars

\* The callback given to pose.onResults, called with a result whose
\* poseLandmarks is lm.  [...historyRef.current] is a new array with the
\* store's elements at that moment; the arrays published earlier (the state, the
\* prop, poseHistoryRef.current) are other objects, which push() and shift()
\* do not touch.  setPoseHistory on an unmounted component does nothing.
OnResults(lm) ==
  IF lm # NoLandmarks
    THEN LET newFrame == [timestamp |-> now, landmarks |-> lm]
         IN  /\ historyRef' = PushFrame(historyRef, newFrame)
             /\ appended' = Append(appended, newFrame)
             /\ ignored' = ignored
             /\ queuedHistory' = IF phase = "mounted" THEN << historyRef' >>
                                 ELSE queuedHistory
             /\ UNCHANGED propVars
    ELSE /\ ignored' = TRUE
         /\ UNCHANGED << historyRef, queuedHistory, appended, propVars >>

\* The pose source completes the request in flight and calls the callback.
\* Nothing in the code keeps the callback from running after pose.close().
PoseResults ==
  /\ sendInFlight
  /\ sendInFlight' = FALSE
  /\ \E lm \in {NoLandmarks} \cup Poses :
       /\ lm # NoLandmarks => Len(appended) < MaxAppends
       /\ OnResults(lm)
  /\ UNCHANGED << now, phase, PoseConstructor, CameraConstructor, error,
                  isLoaded, pose, camera, meshVars, disposeVars, rafVars >>

\* The closed pose source abandons the request in flight without a result.
SendAbandoned ==
  /\ sendInFlight
  /\ pose = "closed"
  /\ sendInFlight' = FALSE
  /\ UNCHANGED << now, phase, PoseConstructor, CameraConstructor, error,
                  isLoaded, pose, camera, storeVars, propVars, meshVars,
                  disposeVars, rafVars >>

\* React renders App with the queued state; Visualizer gets the new prop and
\* its [poseHistory] effect is scheduled.
Render ==
  /\ phase = "mounted"
  /\ queuedHistory # NoUpdate
  /\ ~effectDue
  /\ poseHistory' = queuedHistory[1]
  /\ queuedHistory' = NoUpdate
  /\ effectDue' = TRUE
  /\ UNCHANGED << now, phase, appVars, historyRef, appended, ignored,
                  poseHistoryRef, meshVars, disposeVars, rafVars >>

\* useEffect(() => { poseHistoryRef.current = poseHistory }, [poseHistory])
HistoryEffect ==
  /\ phase = "mounted"
  /\ effectDue
  /\ poseHistoryRef' = poseHistory
  /\ effectDue' = FALSE
  /\ UNCHANGED << now, phase, appVars, storeVars, poseHistory, meshVars,
                  disposeVars, rafVars >>

\* The browser runs a pending animation-frame callback: animate(); at most
\* limit requests are followed.
RunFrame(limit) ==
  /\ rafLast < limit
  /\ \E id \in rafPending : RequestFrame(rafPending \ {id})
  /\ skeletonMeshes' = Animate(poseHistoryRef, now, skeletonMeshes)
  /\ tickLog' = Tick(poseHistoryRef, now)
  /\ UNCHANGED << now, phase, appVars, storeVars, propVars, disposeVars >>

\* VisualizerCleanup without cancelAnimationFrame.
VisualizerCleanup_NoCancel ==
  /\ rafPending' = rafPending
  /\ geometryDisposed' = [i \in Layers |-> geometryDisposed[i] + 1]
  /\ materialDisposed' = [i \in Layers |-> materialDisposed[i] + 1]

\* VisualizerCleanup disposing the geometries only.
VisualizerCleanup_GeometryOnly ==
  /\ rafPending' = rafPending \ {animationId}
  /\ geometryDisposed' = [i \in Layers |-> geometryDisposed[i] + 1]
  /\ materialDisposed' = materialDisposed

\* Visualizer's effect cleanup (part_000:156-167).
VisualizerCleanup ==
  /\ rafPending' = rafPending \ {animationId}
  /\ geometryDisposed' = [i \in Layers |-> geometryDisposed[i] + 1]
  /\ materialDisposed' = [i \in Layers |-> materialDisposed[i] + 1]

\* App's effect cleanup (part_001:67-70); the effect returned none when no
\* Pose constructor was found.
AppCleanup ==
  IF PoseConstructor
    THEN /\ camera' = IF camera = "none" THEN "none" ELSE "stopped"
         /\ pose' = "closed"
    ELSE UNCHANGED << camera, pose >>

\* React unmounts App and with it Visualizer: both cleanups run.
Unmount ==
  /\ phase = "mounted"
  /\ phase' = "unmounted"
  /\ VisualizerCleanup
  /\ AppCleanup
  /\ UNCHANGED << now, PoseConstructor, CameraConstructor, error, isLoaded,
                  sendInFlight, storeVars, propVars, meshVars, rafLast,
                  animationId >>

AdvanceClock == Elapse(MaxNow)
AnimationFrame == RunFrame(MaxFrames)

Next ==
  \/ Mount
  \/ AdvanceClock
  \/ CameraStarted
  \/ CameraDenied
  \/ OnFrame
  \/ PoseResults
  \/ SendAbandoned
  \/ Render
  \/ HistoryEffect
  \/ AnimationFrame
  \/ Unmount

Spec == Init /\ [][Next]_vars

\* ------------------------------------------------- the renderer on its own
\* Frames and time-ordered histories the store can hand to the renderer.
RenderFrameSet ==
  [timestamp : {k * TimeStep : k \in 0 .. (RenderSpan \div TimeStep)},
   landmarks : Poses]

TimeOrdered(h) ==
  \A f \in 1 .. (Len(h) - 1) : h[f].timestamp <= h[f + 1].timestamp

RenderHistories ==
  UNION {{h \in [1 .. n -> RenderFrameSet] : TimeOrdered(h)} : n \in 1 .. RenderLen}

\* The state after Mount, the camera's start and the arrival of the frames of a
\* history h, all rendered and published to poseHistoryRef, before the second
\* animation frame.
InitRender ==
  \E h \in RenderHistories :
    /\ now = h[Len(h)].timestamp
    /\ PoseConstructor = TRUE
    /\ CameraConstructor = TRUE
    /\ phase = "mounted"
    /\ error = "null"
    /\ isLoaded = TRUE
    /\ pose = "open"
    /\ camera = "running"
    /\ sendInFlight = FALSE
    /\ historyRef = h
    /\ queuedHistory = NoUpdate
    /\ poseHistory = h
    /\ effectDue = FALSE
    /\ poseHistoryRef = h
    /\ skeletonMeshes = [i \in Layers |-> NewMesh]
    /\ geometryDisposed = [i \in Layers |-> 0]
    /\ materialDisposed = [i \in Layers |-> 0]
    /\ rafPending = {1}
    /\ rafLast = 1
    /\ animationId = 1
    /\ appended = h
    /\ ignored = FALSE
    /\ tickLog = [count |-> 1, sampled |-> FALSE, now |-> 0,
                  history |-> << >>, store |-> << >>,
                  failed |-> TRAIL_COUNT, composed |-> TRUE]

RenderClock == Elapse(RenderMaxNow)
RenderTick == RunFrame(RenderFrames)

NextRender ==
  \/ RenderClock
  \/ RenderTick

SpecRender == InitRender /\ [][NextRender]_vars

\* ------------------------------------- the renderer given a damaged history
\* Visualizer takes the history as a prop.  A time-ordered history followed by
\* an undefined entry is what a host other than App can hand to it; the body of
\* a layer whose scan reaches that entry throws.
BrokenHistories == {Append(h, Hole) : h \in RenderHistories}

\* As InitRender, with a damaged array committed to poseHistoryRef.
InitBroken ==
  \E h \in RenderHistories :
    /\ now = h[Len(h)].timestamp
    /\ PoseConstructor = TRUE
    /\ CameraConstructor = TRUE
    /\ phase = "mounted"
    /\ error = "null"
    /\ isLoaded = TRUE
    /\ pose = "open"
    /\ camera = "running"
    /\ sendInFlight = FALSE
    /\ historyRef = h
    /\ queuedHistory = NoUpdate
    /\ poseHistory \in BrokenHistories
    /\ poseHistory = Append(h, Hole)
    /\ effectDue = FALSE
    /\ poseHistoryRef = poseHistory
    /\ skeletonMeshes = [i \in Layers |-> NewMesh]
    /\ geometryDisposed = [i \in Layers |-> 0]
    /\ materialDisposed = [i \in Layers |-> 0]
    /\ rafPending = {1}
    /\ rafLast = 1
    /\ animationId = 1
    /\ appended = h
    /\ ignored = FALSE
    /\ tickLog = [count |-> 1, sampled |-> FALSE, now |-> 0,
                  history |-> << >>, store |-> << >>,
                  failed |-> TRAIL_COUNT, composed |-> TRUE]

SpecBroken == InitBroken /\ [][NextRender]_vars

\* ================================================================ claims
\* The frames a sequence of n appends leaves in a store of capacity cap.
Retained(log, cap) == SubSeq(log, Len(log) - Min(Len(log), cap) + 1, Len(log))

\* C1: after N appends by the pose-result callback the history holds
\* min(N, capacity) frames, and they are the most recent ones in arrival order.
C1_HistoryBound ==
  /\ Len(historyRef) = Min(Len(appended), MaxHistory)
  /\ historyRef = Retained(appended, MaxHistory)

\* More frames were appended than the store holds: the oldest were evicted.
C1_Witness ==
  /\ Len(appended) > MaxHistory
  /\ Len(historyRef) = MaxHistory
  /\ historyRef[1] = appended[Len(appended) - MaxHistory + 1]

\* A linear scan of the whole history with no early exit.
RECURSIVE FullScanFrom(_, _, _, _, _)
FullScanFrom(history, target, f, best, minDiff) ==
  IF f > Len(history) THEN [best |-> best, minDiff |-> minDiff]
  ELSE LET diff == Diff(history, f, target) IN
       IF diff < minDiff THEN FullScanFrom(history, target, f + 1, f, diff)
       ELSE FullScanFrom(history, target, f + 1, best, minDiff)

FullScan(history, target) ==
  FullScanFrom(history, target, 2, 1, Diff(history, 1, target))

\* The earliest position among the frames nearest to target.
NearestEarliest(history, target) ==
  CHOOSE f \in 1 .. Len(history) :
    \A g \in 1 .. Len(history) :
      \/ Diff(history, f, target) < Diff(history, g, target)
      \/ Diff(history, f, target) = Diff(history, g, target) /\ f <= g

\* C2: on a non-empty time-ordered history, for every layer's target the
\* early-terminating scan of the tick selects the frame a full linear scan
\* selects: the frame nearest to the target, the earliest one on a tie.
C2_SamplerMatchesFullScan ==
  (tickLog.sampled /\ TimeOrdered(tickLog.history)) =>
    \A i \in Layers :
      LET h == tickLog.history
          t == TargetTimestamp(tickLog.now, i)
          s == skeletonMeshes[i].sampled
      IN  /\ s.target = t
          /\ s.best = FullScan(h, t).best
          /\ s.minDiff = FullScan(h, t).minDiff
          /\ s.best = NearestEarliest(h, t)
          /\ s.minDiff = Diff(h, s.best, t)

\* One tick in which a layer's scan stopped before the end of a three-frame
\* history and another layer's target lay midway between two frames.
C2_Witness ==
  /\ tickLog.sampled
  /\ Len(tickLog.history) = 3
  /\ \E i \in Layers :
       LET s == skeletonMeshes[i].sampled
       IN  s.best = 1 /\ Diff(tickLog.history, 2, s.target) > s.minDiff
  /\ \E i \in Layers :
       LET s == skeletonMeshes[i].sampled
       IN  /\ s.best = 1
           /\ tickLog.history[1].timestamp < tickLog.history[2].timestamp
           /\ Diff(tickLog.history, 2, s.target) = s.minDiff

\* The distance of the frame nearest to target.
MinDist(history, target) ==
  CHOOSE d \in {Diff(history, f, target) : f \in 1 .. Len(history)} :
    \A f \in 1 .. Len(history) : d <= Diff(history, f, target)

Slot(buf, c) == [j \in 1 .. 6 |-> buf[6 * (c - 1) + j]]

\* The landmark set of the frame the last tick sampled for layer i.
SampledPose(i) == tickLog.history[skeletonMeshes[i].sampled.best].landmarks

\* C5: in a tick where a layer's sample is fresh, a connection of the
\* topology writes 6 floats when both its landmarks are present and nothing
\* when one is missing; with all landmarks present all 35 connections write,
\* and fill the buffer.
C5_SegmentCompleteness ==
  tickLog.sampled =>
    \A i \in Layers :
      skeletonMeshes[i].visible =>
        \A p \in {SampledPose(i)} :
          \A log \in {WriteSegments(p, skeletonMeshes[i].positions).log} :
            /\ Len(log) = Len(ALL_CONNECTIONS)
            /\ Len(ALL_CONNECTIONS) = 35
            /\ \A c \in Connections :
                 log[c].n =
                   IF HasLandmark(p, ALL_CONNECTIONS[c][1])
                      /\ HasLandmark(p, ALL_CONNECTIONS[c][2])
                     THEN 6 ELSE 0
            /\ MissingLandmarks(p) = {} =>
                 \A c \in Connections :
                   /\ log[c].n = 6
                   /\ Slot(skeletonMeshes[i].positions, c) =
                        Transform(Landmark(p, ALL_CONNECTIONS[c][1]))
                          \o Transform(Landmark(p, ALL_CONNECTIONS[c][2]))

\* One tick that drew a layer from a frame with all landmarks and another
\* layer from a frame with a landmark missing.
C5_Witness ==
  /\ tickLog.sampled
  /\ \E i \in Layers :
       skeletonMeshes[i].visible /\ MissingLandmarks(SampledPose(i)) = {}
  /\ \E i \in Layers :
       skeletonMeshes[i].visible /\ MissingLandmarks(SampledPose(i)) # {}

\* A step that is a tick over a non-empty history.
SampledTickStep == tickLog'.count = tickLog.count + 1 /\ tickLog'.sampled

\* C6 (as claimed): in a tick that draws a layer, the slot of a connection
\* with a missing landmark keeps the contents of the previous tick, and every
\* other connection's floats are written at that connection's own slot.
C6_SkippedSlotRetained ==
  [][SampledTickStep =>
       \A i \in Layers :
         skeletonMeshes'[i].visible =>
           LET p == tickLog'.history[skeletonMeshes'[i].sampled.best].landmarks
           IN  \A c \in Connections :
                 IF SegmentFloats(p, c) = << >>
                   THEN Slot(skeletonMeshes'[i].positions, c) =
                          Slot(skeletonMeshes[i].positions, c)
                   ELSE Slot(skeletonMeshes'[i].positions, c) =
                          SegmentFloats(p, c)]_vars

\* C7 (as claimed): the history a tick reads equals the history store's
\* contents at the time of the tick.
C7_TickReadsStore ==
  tickLog.count > 0 => tickLog.history = tickLog.store

\* The store's contents after each completed append so far (and before the
\* first).
CompletedStores ==
  {Retained(SubSeq(appended, 1, n), MaxHistory) : n \in 0 .. Len(appended)}

\* C7 (amended): the history a tick reads is the store's contents after some
\* completed append, or the initial empty history, never a state in the
\* middle of an append; it may be older than the store at the time of the tick.
C7_TickReadsCompleteSnapshot ==
  tickLog.count > 0 =>
    /\ tickLog.history \in CompletedStores
    /\ Len(tickLog.history) <= MaxHistory
    /\ tickLog.store \in CompletedStores

\* A tick read a non-empty snapshot while the store, full, already held a
\* newer frame.
C7_Witness ==
  /\ tickLog.sampled
  /\ tickLog.history # tickLog.store
  /\ Len(tickLog.store) = MaxHistory

\* C8: once the Visualizer's teardown has run, no tick executes: no animate()
\* call is recorded, no mesh changes and no animation frame is requested.
C8_NoTickAfterTeardown ==
  [][phase = "unmounted" =>
       /\ tickLog' = tickLog
       /\ skeletonMeshes' = skeletonMeshes
       /\ rafLast' = rafLast
       /\ rafPending' = {}]_vars

\* Teardown ran after a tick had scheduled its successor, and steps were
\* taken after it.
C8_Witness ==
  /\ phase = "unmounted"
  /\ tickLog.count >= 2
  /\ animationId = tickLog.count
  /\ rafPending = {}
  /\ pose = "closed"
  /\ ~sendInFlight
  /\ Len(appended) > 0

\* C9: teardown releases the geometry and the material of each of the 15
\* layers exactly once; none is released before teardown or twice.
C9_ReleasedExactlyOnce ==
  /\ phase = "created" => geometryDisposed = << >> /\ materialDisposed = << >>
  /\ phase = "mounted" =>
       \A i \in Layers : geometryDisposed[i] = 0 /\ materialDisposed[i] = 0
  /\ phase = "unmounted" =>
       /\ DOMAIN geometryDisposed = Layers
       /\ DOMAIN materialDisposed = Layers
       /\ DOMAIN skeletonMeshes = Layers
       /\ Cardinality(Layers) = 15
       /\ \A i \in Layers : geometryDisposed[i] = 1 /\ materialDisposed[i] = 1

\* Teardown ran on layers that ticks had drawn.
C9_Witness ==
  /\ phase = "unmounted"
  /\ tickLog.sampled
  /\ \A i \in Layers : geometryDisposed[i] = 1 /\ materialDisposed[i] = 1

\* C10 (as claimed): after the App's teardown no frame is appended to the
\* history and no snapshot is published.
C10_NoAppendAfterTeardown ==
  [][phase = "unmounted" =>
       /\ historyRef' = historyRef
       /\ queuedHistory' = queuedHistory
       /\ poseHistory' = poseHistory
       /\ poseHistoryRef' = poseHistoryRef]_vars

\* C11: an append (with the eviction it triggers) leaves every history
\* published before it unchanged: the state and the prop, the reference the
\* ticks read, and the history the last tick read keep their contents and
\* length; the history published by the append is the store after it.
C11_SnapshotByValue ==
  [][appended' # appended =>
       /\ poseHistory' = poseHistory
       /\ poseHistoryRef' = poseHistoryRef
       /\ tickLog'.history = tickLog.history
       /\ phase = "mounted" => queuedHistory' = << historyRef' >>]_vars

\* The history the ticks read still starts with the first frame ever
\* appended, which the store has evicted since.
C11_Witness ==
  /\ Len(appended) > MaxHistory
  /\ Len(poseHistoryRef) > 0
  /\ poseHistoryRef[1] = appended[1]
  /\ historyRef[1] # appended[1]
  /\ poseHistoryRef # historyRef

\* C12: when no Pose constructor is found at startup, App's error state is
\* the detection-unavailable message and the render shows it (and nothing
\* else), isLoaded is never set, no pose source is created (so no result
\* callback is registered), no camera is started and no request sent, and the
\* history (store, published state, the renderer's reference) stays empty.
C12_UnavailablePoseSource ==
  (~PoseConstructor /\ phase # "created") =>
    /\ error = "Failed to initialize Pose detection."
    /\ StatusShown = {"Failed to initialize Pose detection."}
    /\ ~isLoaded
    /\ pose = "none"
    /\ camera = "none"
    /\ ~sendInFlight
    /\ historyRef = << >>
    /\ appended = << >>
    /\ queuedHistory = NoUpdate
    /\ poseHistory = << >>
    /\ poseHistoryRef = << >>
    /\ ~tickLog.sampled

\* Without a Pose constructor but with a Camera constructor, time has passed
\* and animation frames have run after startup.
C12_Witness ==
  /\ ~PoseConstructor
  /\ CameraConstructor
  /\ phase = "mounted"
  /\ now > 0
  /\ tickLog.count >= 2
  /\ error = "Failed to initialize Pose detection."

\* C13: in a tick at time now over a non-empty history, layer i of the 15
\* layers samples at now - (i / 14) * 2500 ms, every layer with the same now:
\* 14 * (now - target) = 2500 * i, and every delay lies in 0 .. 2500 ms.
C13_LayerDelaySpread ==
  tickLog.sampled =>
    /\ DOMAIN skeletonMeshes = 0 .. 14
    /\ \A i \in 0 .. 14 :
         LET delay14 == 14 * tickLog.now - skeletonMeshes[i].sampled.target
         IN  /\ delay14 = 2500 * i
             /\ delay14 >= 0
             /\ delay14 <= 14 * 2500

\* A tick at now = 3000 ms: layer 0 sampled at 3000 ms, layer 7 at 1750 ms and
\* layer 14 at 500 ms.
C13_Witness ==
  /\ tickLog.sampled
  /\ tickLog.now = 6 * TimeStep
  /\ skeletonMeshes[0].sampled.target = 14 * tickLog.now
  /\ skeletonMeshes[7].sampled.target = 14 * (tickLog.now - 1250)
  /\ skeletonMeshes[14].sampled.target = 14 * (tickLog.now - 2500)

\* C14: a tick that sets a layer invisible leaves that layer's position
\* buffer as it was before the tick and does not set its needsUpdate flag.
C14_HiddenLayerKeepsBuffer ==
  [][SampledTickStep =>
       \A i \in Layers :
         ~skeletonMeshes'[i].visible =>
           /\ skeletonMeshes'[i].positions = skeletonMeshes[i].positions
           /\ skeletonMeshes'[i].needsUpdate = skeletonMeshes[i].needsUpdate]_vars

\* After a tick, one hidden layer still holds the segments an earlier tick
\* wrote, and another hidden layer was never drawn.
C14_Witness ==
  /\ tickLog.sampled
  /\ \E i \in Layers :
       /\ ~skeletonMeshes[i].visible
       /\ skeletonMeshes[i].needsUpdate
       /\ \E j \in 1 .. BufferLen : skeletonMeshes[i].positions[j] # 0
  /\ \E i \in Layers :
       /\ ~skeletonMeshes[i].visible
       /\ ~skeletonMeshes[i].needsUpdate
       /\ \A j \in 1 .. BufferLen : skeletonMeshes[i].positions[j] = 0

\* C15: with a clock that never goes backwards, the timestamps of the history
\* store are non-decreasing in sequence order after every append and
\* eviction, and so are those of every published history: the queued state,
\* the prop, the reference the ticks read and the history each tick read.
C15_TimeOrderedHistory ==
  /\ TimeOrdered(appended)
  /\ TimeOrdered(historyRef)
  /\ \A k \in 1 .. Len(queuedHistory) : TimeOrdered(queuedHistory[k])
  /\ TimeOrdered(poseHistory)
  /\ TimeOrdered(poseHistoryRef)
  /\ TimeOrdered(tickLog.history)
  /\ \A f \in 1 .. Len(historyRef) : historyRef[f].timestamp <= now

\* The store has evicted a frame and holds frames received at different
\* times, and a tick has read a history of frames received at different times.
C15_Witness ==
  /\ Len(appended) > MaxHistory
  /\ Len(historyRef) = MaxHistory
  /\ historyRef[1].timestamp < historyRef[Len(historyRef)].timestamp
  /\ tickLog.sampled
  /\ Len(tickLog.history) >= 2
  /\ tickLog.history[1].timestamp < tickLog.history[2].timestamp

\* A step that is a tick in which the body of some layer threw.
FailedTickStep ==
  tickLog'.count = tickLog.count + 1 /\ tickLog'.failed # TRAIL_COUNT

C16_NextTickStillScheduled ==
  [][FailedTickStep => animationId' \in rafPending' /\ rafPending' # rafPending]_vars

\* C17: a detection result without a landmark set changes neither the history
\* nor what is published: the store changes and a history is queued for
\* publication only in a step that appends a frame carrying a landmark set, so
\* no frame of the store or of a published history lacks its landmark set.
C17_ResultsWithoutLandmarksIgnored ==
  /\ [](\A f \in 1 .. Len(appended) : appended[f].landmarks \in Poses)
  /\ [](\A f \in 1 .. Len(historyRef) : historyRef[f].landmarks \in Poses)
  /\ [](\A f \in 1 .. Len(poseHistoryRef) : poseHistoryRef[f].landmarks \in Poses)
  /\ [][(historyRef' # historyRef \/ appended' # appended
           \/ (queuedHistory' # queuedHistory /\ queuedHistory' # NoUpdate))
          => \E lm \in Poses :
               appended' = Append(appended, [timestamp |-> now, landmarks |-> lm])]_vars
  /\ [][(ignored' /\ ~ignored) => UNCHANGED << historyRef, queuedHistory, appended,
                                               propVars >>]_vars

\* A result without landmarks has arrived while the store held a frame and
\* while nothing was waiting to be rendered: store and published history are
\* still the one frame.
C17_Witness ==
  /\ ignored
  /\ Len(appended) = 1
  /\ historyRef = appended
  /\ poseHistoryRef = appended
  /\ queuedHistory = NoUpdate

\* C18: from startup to teardown, whenever a tick has returned exactly one
\* animation-frame request is pending, the one made last, and animationId
\* holds its handle; a tick requests its one successor as it starts; teardown
\* cancels the request made last and leaves none pending.
C18_SinglePendingTick ==
  /\ [](phase = "created" => rafPending = {} /\ rafLast = 0)
  /\ [](phase = "mounted" =>
          /\ Cardinality(rafPending) = 1
          /\ rafPending = {rafLast}
          /\ animationId = rafLast
          /\ tickLog.count = rafLast)
  /\ [](phase = "unmounted" => rafPending = {})
  /\ [][tickLog'.count # tickLog.count =>
          /\ rafLast' = rafLast + 1
          /\ rafPending' = {rafLast'}]_vars
  /\ [][(phase = "mounted" /\ phase' = "unmounted") =>
          /\ rafPending = {animationId}
          /\ animationId = rafLast
          /\ rafPending' = {}
          /\ rafLast' = rafLast]_vars

\* While mounted, after the tick run from an animation frame has returned:
\* its successor is the one pending request.
C18_Witness ==
  /\ phase = "mounted"
  /\ tickLog.count = MaxFrames
  /\ rafLast = MaxFrames
  /\ rafPending = {MaxFrames}
  /\ animationId = MaxFrames

\* The timestamp of the newest frame of a non-empty history.
Newest(history) == history[Len(history)].timestamp

C20_LayerOrderingInTime ==
  (tickLog.sampled /\ TimeOrdered(tickLog.history)) =>
    \A i \in Layers : \A j \in Layers :
      i < j =>
        /\ skeletonMeshes[j].sampled.best <= skeletonMeshes[i].sampled.best
        /\ tickLog.history[skeletonMeshes[j].sampled.best].timestamp
             <= tickLog.history[skeletonMeshes[i].sampled.best].timestamp

\* One tick in which the 15 layers selected all three frames of a history of
\* frames received at three different times.
C20_Witness ==
  /\ tickLog.sampled
  /\ Len(tickLog.history) = 3
  /\ tickLog.history[1].timestamp < tickLog.history[2].timestamp
  /\ tickLog.history[2].timestamp < tickLog.history[3].timestamp
  /\ skeletonMeshes[0].sampled.best = 3
  /\ skeletonMeshes[TRAIL_COUNT - 1].sampled.best = 1
  /\ \E i \in Layers : skeletonMeshes[i].sampled.best = 2

====
